---------------------------- MODULE Spec2Model ----------------------------
(***************************************************************************)
(* Pirate Islands (TextBasedGme.py): the world graph, the player, the      *)
(* command interpreter and the session loop, as a state machine.           *)
(*                                                                         *)
(* Python strings are modelled by their characters: Chars maps every       *)
(* string literal of the model to its sequence of one-character strings,   *)
(* and split, lower, join and the substring test work on those sequences.  *)
(* What a handler prints is modelled as the sequence of messages it        *)
(* prints, out; the wording, wrapping and layout of the text are not.      *)
(***************************************************************************)
EXTENDS Naturals, Sequences, FiniteSets, TLC

VARIABLES
    pc,          \* where run() is: "menu", "game" (inside start_game), "exit"
    location,    \* player.location (NoPlayer outside a session)
    inventory,   \* player.inventory
    items,       \* WORLD[name].items, for every island name
    out,         \* what the last step printed, message by message
    session,     \* number of sessions started so far
    wonBefore,   \* history: victory was announced by an earlier command of this session
    ncmd         \* commands read so far (bounds Spec)

vars == <<pc, location, inventory, items, out, session, wonBefore, ncmd>>

-----------------------------------------------------------------------------
(* Bounds *)

MaxCommands == 6
MaxSessions == 2
MaxCarried == 7

-----------------------------------------------------------------------------
(* Game data *)

TREASURE_ITEMS == {"cutlass", "compass", "doubloon", "rum", "spyglass", "map piece"}

ITEMS == TREASURE_ITEMS \cup {"note"}

ISLANDS ==
    {"Pirate Cove", "Skull Key", "Blackwater Cay", "Rumrunner Atoll",
     "Mermaid Shoals", "Cutlass Bay", "Doubloon Point"}

START_ISLAND == "Pirate Cove"

NoPlayer == "(no player)"

\* WORLD[name].items at program start
WORLD_items ==
    "Pirate Cove"     :> <<"note">> @@
    "Skull Key"       :> <<"spyglass">> @@
    "Blackwater Cay"  :> <<"compass">> @@
    "Rumrunner Atoll" :> <<"rum">> @@
    "Mermaid Shoals"  :> <<"map piece">> @@
    "Cutlass Bay"     :> <<"cutlass">> @@
    "Doubloon Point"  :> <<"doubloon">>

\* WORLD[name].exits: direction -> island name
\* mutant of WORLD_exits: no passage between Cutlass Bay and Doubloon Point
WORLD_exits_cut ==
    "Pirate Cove"     :> ("east" :> "Skull Key" @@ "south" :> "Mermaid Shoals") @@
    "Skull Key"       :> ("west" :> "Pirate Cove" @@ "east" :> "Blackwater Cay") @@
    "Blackwater Cay"  :> ("west" :> "Skull Key" @@ "south" :> "Rumrunner Atoll") @@
    "Rumrunner Atoll" :> ("north" :> "Blackwater Cay" @@ "west" :> "Mermaid Shoals") @@
    "Mermaid Shoals"  :> ("north" :> "Pirate Cove" @@ "east" :> "Rumrunner Atoll" @@
                          "south" :> "Cutlass Bay") @@
    "Cutlass Bay"     :> ("north" :> "Mermaid Shoals" @@ "east" :> "Cutlass Bay") @@
    "Doubloon Point"  :> ("west" :> "Doubloon Point")

\* mutant of WORLD_exits: the passage from Skull Key west leads past Pirate Cove
WORLD_exits_one_way ==
    "Pirate Cove"     :> ("east" :> "Skull Key" @@ "south" :> "Mermaid Shoals") @@
    "Skull Key"       :> ("west" :> "Mermaid Shoals" @@ "east" :> "Blackwater Cay") @@
    "Blackwater Cay"  :> ("west" :> "Skull Key" @@ "south" :> "Rumrunner Atoll") @@
    "Rumrunner Atoll" :> ("north" :> "Blackwater Cay" @@ "west" :> "Mermaid Shoals") @@
    "Mermaid Shoals"  :> ("north" :> "Pirate Cove" @@ "east" :> "Rumrunner Atoll" @@
                          "south" :> "Cutlass Bay") @@
    "Cutlass Bay"     :> ("north" :> "Mermaid Shoals" @@ "east" :> "Doubloon Point") @@
    "Doubloon Point"  :> ("west" :> "Cutlass Bay")

WORLD_exits ==
    "Pirate Cove"     :> ("east" :> "Skull Key" @@ "south" :> "Mermaid Shoals") @@
    "Skull Key"       :> ("west" :> "Pirate Cove" @@ "east" :> "Blackwater Cay") @@
    "Blackwater Cay"  :> ("west" :> "Skull Key" @@ "south" :> "Rumrunner Atoll") @@
    "Rumrunner Atoll" :> ("north" :> "Blackwater Cay" @@ "west" :> "Mermaid Shoals") @@
    "Mermaid Shoals"  :> ("north" :> "Pirate Cove" @@ "east" :> "Rumrunner Atoll" @@
                          "south" :> "Cutlass Bay") @@
    "Cutlass Bay"     :> ("north" :> "Mermaid Shoals" @@ "east" :> "Doubloon Point") @@
    "Doubloon Point"  :> ("west" :> "Cutlass Bay")

-----------------------------------------------------------------------------
(* Strings *)

\* the characters of every string literal used below
Chars ==
    "note" :> <<"n", "o", "t", "e">> @@
    "spyglass" :> <<"s", "p", "y", "g", "l", "a", "s", "s">> @@
    "compass" :> <<"c", "o", "m", "p", "a", "s", "s">> @@
    "rum" :> <<"r", "u", "m">> @@
    "map piece" :> <<"m", "a", "p", " ", "p", "i", "e", "c", "e">> @@
    "cutlass" :> <<"c", "u", "t", "l", "a", "s", "s">> @@
    "doubloon" :> <<"d", "o", "u", "b", "l", "o", "o", "n">> @@
    "go" :> <<"g", "o">> @@
    "move" :> <<"m", "o", "v", "e">> @@
    "n" :> <<"n">> @@
    "s" :> <<"s">> @@
    "e" :> <<"e">> @@
    "w" :> <<"w">> @@
    "north" :> <<"n", "o", "r", "t", "h">> @@
    "south" :> <<"s", "o", "u", "t", "h">> @@
    "east" :> <<"e", "a", "s", "t">> @@
    "west" :> <<"w", "e", "s", "t">> @@
    "look" :> <<"l", "o", "o", "k">> @@
    "l" :> <<"l">> @@
    "take" :> <<"t", "a", "k", "e">> @@
    "get" :> <<"g", "e", "t">> @@
    "pick" :> <<"p", "i", "c", "k">> @@
    "drop" :> <<"d", "r", "o", "p">> @@
    "inventory" :> <<"i", "n", "v", "e", "n", "t", "o", "r", "y">> @@
    "inv" :> <<"i", "n", "v">> @@
    "i" :> <<"i">> @@
    "bag" :> <<"b", "a", "g">> @@
    "help" :> <<"h", "e", "l", "p">> @@
    "h" :> <<"h">> @@
    "?" :> <<"?">> @@
    "quit" :> <<"q", "u", "i", "t">> @@
    "exit" :> <<"e", "x", "i", "t">> @@
    "" :> <<>> @@
    " \t " :> <<" ", "\t", " ">> @@
    "go up" :> <<"g", "o", " ", "u", "p">> @@
    "go north" :> <<"g", "o", " ", "n", "o", "r", "t", "h">> @@
    "go south" :> <<"g", "o", " ", "s", "o", "u", "t", "h">> @@
    "go east" :> <<"g", "o", " ", "e", "a", "s", "t">> @@
    "go west" :> <<"g", "o", " ", "w", "e", "s", "t">> @@
    "move e" :> <<"m", "o", "v", "e", " ", "e">> @@
    "GO West" :> <<"G", "O", " ", "W", "e", "s", "t">> @@
    " go  n " :> <<" ", "g", "o", " ", " ", "n", " ">> @@
    "North" :> <<"N", "o", "r", "t", "h">> @@
    "Exit" :> <<"E", "x", "i", "t">> @@
    "dance" :> <<"d", "a", "n", "c", "e">> @@
    "take xyz" :> <<"t", "a", "k", "e", " ", "x", "y", "z">> @@
    "take note" :> <<"t", "a", "k", "e", " ", "n", "o", "t", "e">> @@
    "get spyglass" :> <<"g", "e", "t", " ", "s", "p", "y", "g", "l", "a", "s", "s">> @@
    "pick compass" :> <<"p", "i", "c", "k", " ", "c", "o", "m", "p", "a", "s", "s">> @@
    "take rum" :> <<"t", "a", "k", "e", " ", "r", "u", "m">> @@
    "take map piece" :> <<"t", "a", "k", "e", " ", "m", "a", "p", " ", "p", "i", "e", "c", "e">> @@
    "take  MAP" :> <<"t", "a", "k", "e", " ", " ", "M", "A", "P">> @@
    "take cutlass" :> <<"t", "a", "k", "e", " ", "c", "u", "t", "l", "a", "s", "s">> @@
    "take doubloon" :> <<"t", "a", "k", "e", " ", "d", "o", "u", "b", "l", "o", "o", "n">> @@
    "take s" :> <<"t", "a", "k", "e", " ", "s">> @@
    "take o" :> <<"t", "a", "k", "e", " ", "o">> @@
    "drop xyz" :> <<"d", "r", "o", "p", " ", "x", "y", "z">> @@
    "drop note" :> <<"d", "r", "o", "p", " ", "n", "o", "t", "e">> @@
    "drop spyglass" :> <<"d", "r", "o", "p", " ", "s", "p", "y", "g", "l", "a", "s", "s">> @@
    "drop compass" :> <<"d", "r", "o", "p", " ", "c", "o", "m", "p", "a", "s", "s">> @@
    "drop rum" :> <<"d", "r", "o", "p", " ", "r", "u", "m">> @@
    "drop map  piece" :> <<"d", "r", "o", "p", " ", "m", "a", "p", " ", " ", "p", "i", "e", "c", "e">> @@
    "drop cutlass" :> <<"d", "r", "o", "p", " ", "c", "u", "t", "l", "a", "s", "s">> @@
    "drop doubloon" :> <<"d", "r", "o", "p", " ", "d", "o", "u", "b", "l", "o", "o", "n">> @@
    "drop S" :> <<"d", "r", "o", "p", " ", "S">> @@
    "drop o" :> <<"d", "r", "o", "p", " ", "o">> @@
    "move north" :> <<"m", "o", "v", "e", " ", "n", "o", "r", "t", "h">> @@
    "go n" :> <<"g", "o", " ", "n">> @@
    "move n" :> <<"m", "o", "v", "e", " ", "n">> @@
    "GO NORTH" :> <<"G", "O", " ", "N", "O", "R", "T", "H">> @@
    "Move N" :> <<"M", "o", "v", "e", " ", "N">> @@
    "NORTH" :> <<"N", "O", "R", "T", "H">> @@
    "N" :> <<"N">> @@
    "mOvE noRTH" :> <<"m", "O", "v", "E", " ", "n", "o", "R", "T", "H">> @@
    "  Go\tn " :> <<" ", " ", "G", "o", "\t", "n", " ">> @@
    "move south" :> <<"m", "o", "v", "e", " ", "s", "o", "u", "t", "h">> @@
    "go s" :> <<"g", "o", " ", "s">> @@
    "move s" :> <<"m", "o", "v", "e", " ", "s">> @@
    "GO SOUTH" :> <<"G", "O", " ", "S", "O", "U", "T", "H">> @@
    "Move S" :> <<"M", "o", "v", "e", " ", "S">> @@
    "SOUTH" :> <<"S", "O", "U", "T", "H">> @@
    "S" :> <<"S">> @@
    "South" :> <<"S", "o", "u", "t", "h">> @@
    "mOvE soUTH" :> <<"m", "O", "v", "E", " ", "s", "o", "U", "T", "H">> @@
    "  Go\ts " :> <<" ", " ", "G", "o", "\t", "s", " ">> @@
    "move east" :> <<"m", "o", "v", "e", " ", "e", "a", "s", "t">> @@
    "go e" :> <<"g", "o", " ", "e">> @@
    "GO EAST" :> <<"G", "O", " ", "E", "A", "S", "T">> @@
    "Move E" :> <<"M", "o", "v", "e", " ", "E">> @@
    "EAST" :> <<"E", "A", "S", "T">> @@
    "E" :> <<"E">> @@
    "East" :> <<"E", "a", "s", "t">> @@
    "mOvE eaST" :> <<"m", "O", "v", "E", " ", "e", "a", "S", "T">> @@
    "  Go\te " :> <<" ", " ", "G", "o", "\t", "e", " ">> @@
    "move west" :> <<"m", "o", "v", "e", " ", "w", "e", "s", "t">> @@
    "go w" :> <<"g", "o", " ", "w">> @@
    "move w" :> <<"m", "o", "v", "e", " ", "w">> @@
    "GO WEST" :> <<"G", "O", " ", "W", "E", "S", "T">> @@
    "Move W" :> <<"M", "o", "v", "e", " ", "W">> @@
    "WEST" :> <<"W", "E", "S", "T">> @@
    "W" :> <<"W">> @@
    "West" :> <<"W", "e", "s", "t">> @@
    "mOvE weST" :> <<"m", "O", "v", "E", " ", "w", "e", "S", "T">> @@
    "  Go\tw " :> <<" ", " ", "G", "o", "\t", "w", " ">> @@
    "take spyglass" :> <<"t", "a", "k", "e", " ", "s", "p", "y", "g", "l", "a", "s", "s">>

Lines ==
    {"", " \t ", "go", "go up", "go north", "go south",
     "go east", "go west", "move e", "GO West", " go  n ", "n",
     "s", "e", "w", "North", "look", "l",
     "inventory", "i", "help", "?", "quit", "Exit",
     "dance", "take", "take xyz", "take note", "get spyglass", "pick compass",
     "take rum", "take map piece", "take  MAP", "take cutlass", "take doubloon", "take s",
     "take o", "drop", "drop xyz", "drop note", "drop spyglass", "drop compass",
     "drop rum", "drop map  piece", "drop cutlass", "drop doubloon", "drop S", "drop o"}

\* the lines a player may type to move in a direction: go or move with the
\* direction, or the direction alone, in full or as its first letter, in any
\* letter case and with any spacing
MoveSpellings ==
    "north" :> {"go north", "move north", "north", "go n", "move n", "n", "GO NORTH", "Move N", "NORTH", "N", "North", "mOvE noRTH", "  Go\tn "} @@
    "south" :> {"go south", "move south", "south", "go s", "move s", "s", "GO SOUTH", "Move S", "SOUTH", "S", "South", "mOvE soUTH", "  Go\ts "} @@
    "east" :> {"go east", "move east", "east", "go e", "move e", "e", "GO EAST", "Move E", "EAST", "E", "East", "mOvE eaST", "  Go\te "} @@
    "west" :> {"go west", "move west", "west", "go w", "move w", "w", "GO WEST", "Move W", "WEST", "W", "West", "mOvE weST", "  Go\tw "}

MoveSpellingLines == UNION {MoveSpellings[d] : d \in DOMAIN MoveSpellings}

\* the lines of a short game: to Skull Key, the spyglass, back, the bag
SpyglassTrip == <<"go east", "take spyglass", "go west", "inventory">>

Whitespace == {" ", "\t"}

UpperCase ==
    <<"A","B","C","D","E","F","G","H","I","J","K","L","M",
      "N","O","P","Q","R","S","T","U","V","W","X","Y","Z">>

LowerCase ==
    <<"a","b","c","d","e","f","g","h","i","j","k","l","m",
      "n","o","p","q","r","s","t","u","v","w","x","y","z">>

\* the lower-case letter of every upper-case letter
ToLower == [c \in {UpperCase[k] : k \in 1..Len(UpperCase)} |->
               LowerCase[CHOOSE k \in 1..Len(UpperCase) : UpperCase[k] = c]]

\* str.lower(), one character
lower_char(c) == IF c \in DOMAIN ToLower THEN ToLower[c] ELSE c

\* str.lower()
lower(s) == [k \in 1..Len(s) |-> lower_char(s[k])]

\* str.strip().split(): the maximal runs of non-whitespace characters, in order
RECURSIVE split_from(_, _, _)
split_from(s, k, word) ==
    IF k > Len(s)
    THEN IF word = <<>> THEN <<>> ELSE <<word>>
    ELSE IF s[k] \in Whitespace
         THEN IF word = <<>>
              THEN split_from(s, k + 1, <<>>)
              ELSE <<word>> \o split_from(s, k + 1, <<>>)
         ELSE split_from(s, k + 1, Append(word, s[k]))

split(s) == split_from(s, 1, <<>>)

\* " ".join(args)
RECURSIVE join(_)
join(args) ==
    IF args = <<>> THEN <<>>
    ELSE IF Len(args) = 1 THEN args[1]
    ELSE args[1] \o <<" ">> \o join(Tail(args))

\* the Python test `sub in s` on strings
contains(s, sub) ==
    \E k \in 0..Len(s) :
        /\ k + Len(sub) <= Len(s)
        /\ \A j \in 1..Len(sub) : s[k + j] = sub[j]

\* mutant of list_remove: the item is not removed
list_remove_kept(l, x) == l

\* list.remove(x): drops the first occurrence of x
list_remove(l, x) ==
    LET k == CHOOSE k \in 1..Len(l) : l[k] = x /\ \A j \in 1..(k - 1) : l[j] # x
    IN  [j \in 1..(Len(l) - 1) |-> IF j < k THEN l[j] ELSE l[j + 1]]

\* set(list)
set_of(l) == {l[k] : k \in 1..Len(l)}

-----------------------------------------------------------------------------
(* Messages *)

MsgLocation     == "show_location"
MsgGoWhere      == "Go where? Try 'go north' or 'go n'."
MsgNotDirection == "That's not a direction. Use north/south/east/west (or n/s/e/w)."
MsgNoPassage    == "No passage that way."
MsgTakeWhat     == "Take what?"
MsgNotHere      == "You don't see that here."
MsgYouTake      == "You take the"
MsgDropWhat     == "Drop what?"
MsgNotCarrying  == "You aren't carrying that."
MsgYouDrop      == "You drop the"
MsgBagEmpty     == "Your bag is empty."
MsgYouCarry     == "You carry:"
MsgMissing      == "Still missing:"
MsgFullTrove    == "You've collected the full trove! Return to Pirate Cove to claim victory."
MsgVictory      == "Victory!"
MsgHelp         == "How to Play"
MsgFarewell     == "Fair winds, captain."
MsgEofFarewell  == "\nFair winds, captain."
MsgUnknown      == "I don't understand that command. Type 'help' for options."
MsgGoodbye      == "Goodbye!"
MsgChoose       == "Choose 1, 2, or 3."

\* print(m): the game state st with one more message printed
print(st, m) == [st EXCEPT !.out = Append(@, m)]

-----------------------------------------------------------------------------
(* Game engine: each handler maps the game state                           *)
(* [location, inventory, items, out] to the game state it leaves.          *)

\* i.lower() of every item name, computed once
LowerName == [i \in ITEMS |-> lower(Chars[i])]

\* mutant of has_all_treasure: counts the carried items
has_all_treasure_by_count(inv) == Len(inv) >= Cardinality(TREASURE_ITEMS)

\* Player.has_all_treasure
has_all_treasure(inv) == TREASURE_ITEMS \subseteq set_of(inv)

show_location(st) == print(st, MsgLocation)

None == "None"

\* the dict of parse_direction
mapping ==
    Chars["n"] :> "north" @@ Chars["north"] :> "north" @@
    Chars["s"] :> "south" @@ Chars["south"] :> "south" @@
    Chars["e"] :> "east"  @@ Chars["east"]  :> "east"  @@
    Chars["w"] :> "west"  @@ Chars["west"]  :> "west"

\* mutant of parse_direction: an unknown token is read as north
parse_direction_default(token) ==
    LET t == lower(token)
    IN  IF t \in DOMAIN mapping THEN mapping[t] ELSE "north"

parse_direction(token) ==
    LET t == lower(token)
    IN  IF t \in DOMAIN mapping THEN mapping[t] ELSE None

\* mutant of handle_go: the player's location becomes the direction walked
handle_go_to_direction(st, args) ==
    IF args = <<>> THEN print(st, MsgGoWhere)
    ELSE LET direction == parse_direction(args[1]) IN
         IF direction = None THEN print(st, MsgNotDirection)
         ELSE IF direction \notin DOMAIN WORLD_exits[st.location]
              THEN print(st, MsgNoPassage)
              ELSE show_location([st EXCEPT !.location = direction])

handle_go(st, args) ==
    IF args = <<>> THEN print(st, MsgGoWhere)
    ELSE LET direction == parse_direction(args[1]) IN
         IF direction = None THEN print(st, MsgNotDirection)
         ELSE IF direction \notin DOMAIN WORLD_exits[st.location]
              THEN print(st, MsgNoPassage)
              ELSE show_location(
                       [st EXCEPT !.location = WORLD_exits[st.location][direction]])

\* mutant of handle_look: the view is taken from the home island
handle_look_from_home(st) == show_location([st EXCEPT !.location = START_ISLAND])

handle_look(st) == show_location(st)

print_victory(st) == print(st, MsgVictory)

\* mutant of handle_take: the emptiness of matches is not checked, the first item
\* of the island is taken when nothing matches
handle_take_unchecked(st, args) ==
    IF args = <<>> THEN print(st, MsgTakeWhat)
    ELSE LET item == lower(join(args))
             here == st.items[st.location]
             matches == SelectSeq(here, LAMBDA i : contains(LowerName[i], item))
         IN  IF matches = <<>> /\ here = <<>> THEN print(st, MsgNotHere)
             ELSE LET found == IF matches = <<>> THEN here[1] ELSE matches[1]
                      taken == print(print(
                                   [st EXCEPT !.items[st.location] = list_remove(@, found),
                                              !.inventory = Append(@, found)],
                                   MsgYouTake), found)
                  IN  IF has_all_treasure(taken.inventory) /\ taken.location = "Pirate Cove"
                      THEN print_victory(taken)
                      ELSE taken

\* mutant of handle_take: the last match is taken, not the first
handle_take_last_match(st, args) ==
    IF args = <<>> THEN print(st, MsgTakeWhat)
    ELSE LET item == lower(join(args))
             here == st.items[st.location]
             matches == SelectSeq(here, LAMBDA i : contains(LowerName[i], item))
         IN  IF matches = <<>> THEN print(st, MsgNotHere)
             ELSE LET found == matches[Len(matches)]
                      taken == print(print(
                                   [st EXCEPT !.items[st.location] = list_remove(@, found),
                                              !.inventory = Append(@, found)],
                                   MsgYouTake), found)
                  IN  IF has_all_treasure(taken.inventory) /\ taken.location = "Pirate Cove"
                      THEN print_victory(taken)
                      ELSE taken

handle_take(st, args) ==
    IF args = <<>> THEN print(st, MsgTakeWhat)
    ELSE LET item == lower(join(args))
             here == st.items[st.location]
             matches == SelectSeq(here, LAMBDA i : contains(LowerName[i], item))
         IN  IF matches = <<>> THEN print(st, MsgNotHere)
             ELSE LET found == matches[1]
                      taken == print(print(
                                   [st EXCEPT !.items[st.location] = list_remove(@, found),
                                              !.inventory = Append(@, found)],
                                   MsgYouTake), found)
                  IN  IF has_all_treasure(taken.inventory) /\ taken.location = "Pirate Cove"
                      THEN print_victory(taken)
                      ELSE taken

\* mutant of handle_drop: the rejection still removes the first carried item
handle_drop_unchecked(st, args) ==
    IF args = <<>> THEN print(st, MsgDropWhat)
    ELSE LET item == lower(join(args))
             matches == SelectSeq(st.inventory, LAMBDA i : contains(LowerName[i], item))
         IN  IF matches = <<>>
             THEN print([st EXCEPT !.inventory = IF @ = <<>> THEN @ ELSE Tail(@)],
                        MsgNotCarrying)
             ELSE LET found == matches[1]
                  IN  print(print(
                          [st EXCEPT !.inventory = list_remove(@, found),
                                     !.items[st.location] = Append(@, found)],
                          MsgYouDrop), found)

\* mutant of handle_drop: the item is put in front of the island's list
handle_drop_in_front(st, args) ==
    IF args = <<>> THEN print(st, MsgDropWhat)
    ELSE LET item == lower(join(args))
             matches == SelectSeq(st.inventory, LAMBDA i : contains(LowerName[i], item))
         IN  IF matches = <<>> THEN print(st, MsgNotCarrying)
             ELSE LET found == matches[1]
                  IN  print(print(
                          [st EXCEPT !.inventory = list_remove(@, found),
                                     !.items[st.location] = <<found>> \o @],
                          MsgYouDrop), found)

\* mutant of handle_drop: the dropped item goes overboard
handle_drop_overboard(st, args) ==
    IF args = <<>> THEN print(st, MsgDropWhat)
    ELSE LET item == lower(join(args))
             matches == SelectSeq(st.inventory, LAMBDA i : contains(LowerName[i], item))
         IN  IF matches = <<>> THEN print(st, MsgNotCarrying)
             ELSE LET found == matches[1]
                  IN  print(print([st EXCEPT !.inventory = list_remove(@, found)],
                                  MsgYouDrop), found)

\* mutant of handle_drop: the first carried item is dropped, whatever was asked
handle_drop_first_carried(st, args) ==
    IF args = <<>> THEN print(st, MsgDropWhat)
    ELSE LET item == lower(join(args))
             matches == SelectSeq(st.inventory, LAMBDA i : contains(LowerName[i], item))
         IN  IF matches = <<>> THEN print(st, MsgNotCarrying)
             ELSE LET found == st.inventory[1]
                  IN  print(print(
                          [st EXCEPT !.inventory = list_remove(@, found),
                                     !.items[st.location] = Append(@, found)],
                          MsgYouDrop), found)

handle_drop(st, args) ==
    IF args = <<>> THEN print(st, MsgDropWhat)
    ELSE LET item == lower(join(args))
             matches == SelectSeq(st.inventory, LAMBDA i : contains(LowerName[i], item))
         IN  IF matches = <<>> THEN print(st, MsgNotCarrying)
             ELSE LET found == matches[1]
                  IN  print(print(
                          [st EXCEPT !.inventory = list_remove(@, found),
                                     !.items[st.location] = Append(@, found)],
                          MsgYouDrop), found)

\* sorted(missing): the treasure names in string order
SortedTreasure == <<"compass", "cutlass", "doubloon", "map piece", "rum", "spyglass">>

\* mutant of handle_inventory: the full trove is reported only at Pirate Cove
handle_inventory_at_home(st) ==
    IF st.inventory = <<>> THEN print(st, MsgBagEmpty)
    ELSE LET carry == [st EXCEPT !.out = (@ \o <<MsgYouCarry>>) \o st.inventory]
             missing == TREASURE_ITEMS \ set_of(st.inventory)
         IN  IF missing # {} \/ st.location # "Pirate Cove"
             THEN [carry EXCEPT !.out = (@ \o <<MsgMissing>>)
                                        \o SelectSeq(SortedTreasure, LAMBDA t : t \in missing)]
             ELSE print(carry, MsgFullTrove)

handle_inventory(st) ==
    IF st.inventory = <<>> THEN print(st, MsgBagEmpty)
    ELSE LET carry == [st EXCEPT !.out = (@ \o <<MsgYouCarry>>) \o st.inventory]
             missing == TREASURE_ITEMS \ set_of(st.inventory)
         IN  IF missing # {}
             THEN [carry EXCEPT !.out = (@ \o <<MsgMissing>>)
                                        \o SelectSeq(SortedTreasure, LAMBDA t : t \in missing)]
             ELSE print(carry, MsgFullTrove)

\* mutant of check_victory_on_move: the inventory is not looked at
check_victory_at_home(st) ==
    IF st.location = "Pirate Cove" THEN print_victory(st) ELSE st

\* mutant of check_victory_on_move: the island is not looked at
check_victory_anywhere(st) ==
    IF has_all_treasure(st.inventory) THEN print_victory(st) ELSE st

\* mutant of check_victory_on_move: victory is announced once per session
check_victory_once(st) ==
    IF /\ st.location = "Pirate Cove" /\ has_all_treasure(st.inventory)
       /\ ~(wonBefore \/ (\E k \in 1..Len(out) : out[k] = MsgVictory))
    THEN print_victory(st)
    ELSE st

check_victory_on_move(st) ==
    IF st.location = "Pirate Cove" /\ has_all_treasure(st.inventory)
    THEN print_victory(st)
    ELSE st

handle_help(st) == print(st, MsgHelp)

Words(ws) == {Chars[w] : w \in ws}

\* the verb sets of handle_command
GoVerbs        == Words({"go", "move"})
\* mutant of DirectionVerbs: only the full direction names are verbs
DirectionVerbsFullOnly == Words({"north", "south", "east", "west"})
DirectionVerbs == Words({"n", "s", "e", "w", "north", "south", "east", "west"})
LookVerbs      == Words({"look", "l"})
TakeVerbs      == Words({"take", "get", "pick"})
DropVerbs      == Words({"drop"})
InventoryVerbs == Words({"inventory", "inv", "i", "bag"})
HelpVerbs      == Words({"help", "h", "?"})
\* mutant of QuitVerbs: exit is not a quit verb
QuitVerbsNoExit == Words({"quit"})
QuitVerbs      == Words({"quit", "exit"})

\* command.strip().split() of every input line, computed once
Tokens == [l \in Lines \cup MoveSpellingLines \cup {SpyglassTrip[k] : k \in 1..Len(SpyglassTrip)}
               |-> split(Chars[l])]

\* handle_command: the game state it leaves in st, and its return value in continue
handle_command(st, command) ==
    LET tokens == Tokens[command]
        verb == lower(tokens[1])
        args == Tail(tokens)
    IN  IF tokens = <<>> THEN [st |-> st, continue |-> TRUE]
        ELSE IF verb \in GoVerbs
        THEN [st |-> check_victory_on_move(handle_go(st, args)), continue |-> TRUE]
        ELSE IF verb \in DirectionVerbs
        THEN [st |-> check_victory_on_move(handle_go(st, <<verb>>)), continue |-> TRUE]
        ELSE IF verb \in LookVerbs
        THEN [st |-> handle_look(st), continue |-> TRUE]
        ELSE IF verb \in TakeVerbs
        THEN [st |-> handle_take(st, args), continue |-> TRUE]
        ELSE IF verb \in DropVerbs
        THEN [st |-> handle_drop(st, args), continue |-> TRUE]
        ELSE IF verb \in InventoryVerbs
        THEN [st |-> handle_inventory(st), continue |-> TRUE]
        ELSE IF verb \in HelpVerbs
        THEN [st |-> handle_help(st), continue |-> TRUE]
        ELSE IF verb \in QuitVerbs
        THEN [st |-> print(st, MsgFarewell), continue |-> FALSE]
        ELSE [st |-> print(st, MsgUnknown), continue |-> TRUE]

-----------------------------------------------------------------------------
(* The session loop and the menu *)

\* the game state a command starts from: nothing printed yet
Game == [location |-> location, inventory |-> inventory, items |-> items, out |-> <<>>]

Announced(o) == \E k \in 1..Len(o) : o[k] = MsgVictory

\* Player() in the world as it is when the program starts, before show_location
FreshGame ==
    [location |-> START_ISLAND, inventory |-> <<>>, items |-> WORLD_items, out |-> <<>>]

\* the command loop of start_game on the given input lines: the state after the
\* last line read, out holding what that line printed
RECURSIVE play(_, _)
play(st, lines) ==
    IF lines = <<>> THEN st
    ELSE LET r == handle_command([st EXCEPT !.out = <<>>], Head(lines))
         IN  IF r.continue THEN play(r.st, Tail(lines)) ELSE r.st

Init ==
    /\ pc = "menu"
    /\ location = NoPlayer
    /\ inventory = <<>>
    /\ items = WORLD_items
    /\ out = <<>>
    /\ session = 0
    /\ wonBefore = FALSE
    /\ ncmd = 0

\* start_game, up to its first input(): player = Player(); show_location(player)
start_game ==
    /\ pc = "menu"
    /\ session < MaxSessions
    /\ pc' = "game"
    /\ location' = START_ISLAND
    /\ inventory' = <<>>
    /\ out' = <<MsgLocation>>
    /\ session' = session + 1
    /\ wonBefore' = FALSE
    /\ UNCHANGED <<items, ncmd>>

\* one turn of start_game's loop: cmd = input(...); handle_command(player, cmd)
Command(line) ==
    /\ pc = "game"
    /\ \E r \in {handle_command(Game, line)} :
       /\ location' = IF r.continue THEN r.st.location ELSE NoPlayer
       /\ inventory' = IF r.continue THEN r.st.inventory ELSE <<>>
       /\ items' = r.st.items
       /\ out' = r.st.out
       /\ pc' = IF r.continue THEN "game" ELSE "menu"
       /\ wonBefore' = (r.continue /\ (wonBefore \/ Announced(out)))
    /\ UNCHANGED session

\* input() raises EOFError or KeyboardInterrupt inside start_game
EndOfInput ==
    /\ pc = "game"
    /\ pc' = "menu"
    /\ location' = NoPlayer
    /\ inventory' = <<>>
    /\ out' = <<MsgEofFarewell>>
    /\ wonBefore' = FALSE
    /\ UNCHANGED <<items, session, ncmd>>

\* run, choice "2": show_instructions
Instructions ==
    /\ pc = "menu"
    /\ out' = <<MsgHelp>>
    /\ UNCHANGED <<pc, location, inventory, items, session, wonBefore, ncmd>>

\* run, choice "3"
Quit ==
    /\ pc = "menu"
    /\ pc' = "exit"
    /\ out' = <<MsgGoodbye>>
    /\ UNCHANGED <<location, inventory, items, session, wonBefore, ncmd>>

\* run, any other choice
BadChoice ==
    /\ pc = "menu"
    /\ out' = <<MsgChoose>>
    /\ UNCHANGED <<pc, location, inventory, items, session, wonBefore, ncmd>>

Next ==
    \/ start_game
    \/ \E line \in Lines :
           ncmd < MaxCommands /\ Command(line) /\ ncmd' = ncmd + 1
    \/ EndOfInput
    \/ Instructions
    \/ Quit
    \/ BadChoice

Spec == Init /\ [][Next]_vars

\* One session played with go, take and drop lines only, for as long as the player
\* likes; the spyglass is the one item the player drops.
PlayLines ==
    {"go north", "go south", "go east", "go west",
     "get spyglass", "pick compass", "take rum", "take map piece", "take cutlass",
     "take doubloon", "drop spyglass"}

NextPlay ==
    \/ start_game
    \/ \E line \in PlayLines : Command(line) /\ UNCHANGED ncmd

SpecPlay == Init /\ [][NextPlay]_vars

\* has_all_treasure on every inventory: the player stands at Pirate Cove with any
\* of the items, in any order, the other items where the world starts them, having
\* just looked around; only commands that leave the player there are given.

\* the lists of at most n items without repetition
RECURSIVE Orders(_)
Orders(n) ==
    IF n = 0 THEN {<<>>}
    ELSE UNION {{l} \cup {Append(l, i) : i \in ITEMS \ set_of(l)} : l \in Orders(n - 1)}

Inventories == Orders(MaxCarried)

InitCarrying ==
    /\ pc = "game"
    /\ location = START_ISLAND
    /\ inventory \in Inventories
    /\ items = [n \in ISLANDS |->
                    SelectSeq(WORLD_items[n], LAMBDA i : i \notin set_of(inventory))]
    /\ out = <<MsgLocation>>
    /\ session = 1
    /\ wonBefore = (TREASURE_ITEMS \subseteq set_of(inventory))
    /\ ncmd = 0

StayLines == {"go north", "w", "look", "inventory", "drop xyz"}

NextCarrying == \E line \in StayLines : Command(line) /\ UNCHANGED ncmd

SpecCarrying == InitCarrying /\ [][NextCarrying]_vars

-----------------------------------------------------------------------------
(* The input lines by kind, and what each asks for, read off the lines     *)
(* themselves: these do not use the interpreter above.                     *)

MoveLines ==
    {"go", "go up", "go north", "go south", "go east", "go west", "move e", "GO West",
     " go  n ", "n", "s", "e", "w", "North"}

TakeLines ==
    {"take", "take xyz", "take note", "get spyglass", "pick compass", "take rum",
     "take map piece", "take  MAP", "take cutlass", "take doubloon", "take s", "take o"}

DropLines ==
    {"drop", "drop xyz", "drop note", "drop spyglass", "drop compass", "drop rum",
     "drop map  piece", "drop cutlass", "drop doubloon", "drop S", "drop o"}

QuitLines == {"quit", "Exit"}

\* the direction a move line names, "none" when it names none
LineDirection ==
    "go" :> "none" @@ "go up" :> "none" @@
    "go north" :> "north" @@ "go south" :> "south" @@
    "go east" :> "east" @@ "go west" :> "west" @@
    "move e" :> "east" @@ "GO West" :> "west" @@ " go  n " :> "north" @@
    "n" :> "north" @@ "s" :> "south" @@ "e" :> "east" @@ "w" :> "west" @@
    "North" :> "north"

\* the item names that contain a take or drop line's argument, case-insensitively
LineMatches ==
    "take" :> {} @@
    "take xyz" :> {} @@
    "take note" :> {"note"} @@
    "get spyglass" :> {"spyglass"} @@
    "pick compass" :> {"compass"} @@
    "take rum" :> {"rum"} @@
    "take map piece" :> {"map piece"} @@
    "take  MAP" :> {"map piece"} @@
    "take cutlass" :> {"cutlass"} @@
    "take doubloon" :> {"doubloon"} @@
    "take s" :> {"spyglass", "compass", "cutlass"} @@
    "take o" :> {"note", "compass", "doubloon"} @@
    "drop" :> {} @@
    "drop xyz" :> {} @@
    "drop note" :> {"note"} @@
    "drop spyglass" :> {"spyglass"} @@
    "drop compass" :> {"compass"} @@
    "drop rum" :> {"rum"} @@
    "drop map  piece" :> {"map piece"} @@
    "drop cutlass" :> {"cutlass"} @@
    "drop doubloon" :> {"doubloon"} @@
    "drop S" :> {"spyglass", "compass", "cutlass"} @@
    "drop o" :> {"note", "compass", "doubloon"}

\* how often item i occurs in the list l
Occurrences(l, i) == Cardinality({k \in 1..Len(l) : l[k] = i})

RECURSIVE SumOver(_, _, _)
SumOver(S, i, f) ==
    IF S = {} THEN 0
    ELSE LET x == CHOOSE x \in S : TRUE
         IN  Occurrences(f[x], i) + SumOver(S \ {x}, i, f)

\* how often item i occurs in all the containers together
TotalOccurrences(i) == Occurrences(inventory, i) + SumOver(ISLANDS, i, items)

\* every treasure name occurs in the list l
HoldsAllSix(l) == \A t \in TREASURE_ITEMS : \E k \in 1..Len(l) : l[k] = t

\* the command leaves location, inventory and item lists as they are and the
\* session goes on
NothingChanged(r) ==
    /\ r.continue
    /\ r.st.location = location
    /\ r.st.inventory = inventory
    /\ r.st.items = items

\* the place of the first element of the list l that is in the set S
FirstIn(l, S) == CHOOSE k \in 1..Len(l) : l[k] \in S /\ \A j \in 1..(k - 1) : l[j] \notin S

\* the list l without its k-th element, the others in their order
WithoutAt(l, k) == [j \in 1..(Len(l) - 1) |-> IF j < k THEN l[j] ELSE l[j + 1]]

-----------------------------------------------------------------------------
(* Claims *)

\* C1: in the first session, which starts from the initial world, after any
\* sequence of commands each of the seven item names occurs exactly once in all
\* the island item lists and the inventory together.
C1_EachItemOnce ==
    (session = 1 /\ pc = "game") => \A i \in ITEMS : TotalOccurrences(i) = 1

\* C1 witness: items have been taken and dropped: the note lies on another island
\* and the spyglass is carried.
C1_Witness ==
    /\ session = 1 /\ pc = "game"
    /\ \E k \in 1..Len(items["Skull Key"]) : items["Skull Key"][k] = "note"
    /\ \E k \in 1..Len(inventory) : inventory[k] = "spyglass"

\* C2: a command announces victory exactly when it is a move line (carried out or
\* rejected) or a take line that takes something, and it leaves the player at
\* Pirate Cove carrying all six treasure items.
C2_VictoryIff ==
    pc = "game" =>
        \A l \in Lines : \E r \in {handle_command(Game, l)} :
            Announced(r.st.out) <=>
                /\ \/ l \in MoveLines
                   \/ l \in TakeLines /\ Len(r.st.inventory) > Len(inventory)
                /\ r.st.location = "Pirate Cove"
                /\ HoldsAllSix(r.st.inventory)

\* C2 witness: a take at Pirate Cove has completed the set and announced victory.
C2_Witness == pc = "game" /\ Len(out) = 3 /\ out[1] = MsgYouTake /\ out[3] = MsgVictory

\* C3: the player is never at Pirate Cove with all six unless victory has been
\* announced, and the first announcement of a session, unless a take at Pirate
\* Cove makes it, is made by the move that brings the player to Pirate Cove with
\* all six: not by a take elsewhere, and not by a move that ends elsewhere or
\* with fewer than six.
C3_FirstVictoryOnArrival ==
    /\ []((pc = "game" /\ location = "Pirate Cove" /\ HoldsAllSix(inventory)) =>
              (wonBefore \/ Announced(out)))
    /\ [][(/\ pc = "game" /\ pc' = "game"
           /\ Announced(out') /\ ~wonBefore'
           /\ ~(out'[1] = MsgYouTake /\ location = "Pirate Cove")) =>
              /\ out' = <<MsgLocation, MsgVictory>>
              /\ location # "Pirate Cove" /\ location' = "Pirate Cove"
              /\ inventory' = inventory /\ HoldsAllSix(inventory')]_vars

\* C3 witness: the move that brought the player home with all six, each lying
\* on no island any more, made the first announcement of the session.
C3_Witness ==
    /\ pc = "game" /\ ~wonBefore
    /\ \A n \in ISLANDS \ {START_ISLAND} : items[n] = <<>>
    /\ out = <<MsgLocation, MsgVictory>> /\ location = "Pirate Cove"

\* C4 (as claimed): every session started from the menu begins at Pirate Cove
\* with an empty inventory and every item on the island it occupied at program
\* start.
C4_FreshSession ==
    [][(pc = "menu" /\ pc' = "game") =>
          (location' = START_ISLAND /\ inventory' = <<>> /\ items' = WORLD_items)]_vars

\* C5: a take line whose argument is contained in no item name of the current
\* island (or that has no argument) changes nothing, the session goes on, the
\* line is rejected, and the same line is rejected the same way again.
C5_FailedTakeChangesNothing ==
    pc = "game" =>
        \A l \in TakeLines :
            (\A k \in 1..Len(items[location]) : items[location][k] \notin LineMatches[l]) =>
                \E r \in {handle_command(Game, l)} :
                    /\ NothingChanged(r)
                    /\ r.st.out \in {<<MsgTakeWhat>>, <<MsgNotHere>>}
                    /\ handle_command([r.st EXCEPT !.out = <<>>], l) = r

\* C5 witness: in a session with nothing carried, a take has just been rejected.
C5_Witness == pc = "game" /\ out = <<MsgNotHere>> /\ inventory = <<>> /\ ncmd >= 2

\* C6: a drop line whose argument is contained in no carried item name (or that
\* has no argument) changes nothing and the session goes on.
C6_FailedDropChangesNothing ==
    pc = "game" =>
        \A l \in DropLines :
            (\A k \in 1..Len(inventory) : inventory[k] \notin LineMatches[l]) =>
                \E r \in {handle_command(Game, l)} :
                    /\ NothingChanged(r)
                    /\ r.st.out \in {<<MsgDropWhat>>, <<MsgNotCarrying>>}

\* C6 witness: a drop has just been rejected while something is carried.
C6_Witness == pc = "game" /\ out = <<MsgNotCarrying>> /\ inventory # <<>>

\* C7: a move line that names no direction, or a direction the current island
\* has no exit for, changes nothing and the session goes on.
C7_RejectedMoveChangesNothing ==
    pc = "game" =>
        \A l \in MoveLines :
            (\/ LineDirection[l] = "none"
             \/ LineDirection[l] \notin DOMAIN WORLD_exits[location]) =>
                \E r \in {handle_command(Game, l)} :
                    /\ NothingChanged(r)
                    /\ r.st.out[1] \in {MsgGoWhere, MsgNotDirection, MsgNoPassage}

\* C7 witness: away from Pirate Cove with something carried, a move was rejected.
C7_Witness ==
    /\ pc = "game" /\ location # START_ISLAND /\ inventory # <<>>
    /\ out \in {<<MsgNoPassage>>, <<MsgNotDirection>>}

C9_HasAllTreasure ==
    has_all_treasure(inventory) <=>
        \A t \in TREASURE_ITEMS : \E k \in 1..Len(inventory) : inventory[k] = t

\* C9 witness: all six are carried with the note among them, not last, and the
\* victory check of a rejected move has used has_all_treasure.
C9_Witness ==
    /\ Len(inventory) = 7 /\ inventory[3] = "note" /\ inventory[1] = "doubloon"
    /\ out = <<MsgNoPassage, MsgVictory>>

\* C10: once victory has been announced in a session, every move line that leaves
\* the player at Pirate Cove with all six announces it again, and no move or take
\* line that leaves the player without the full set announces it.
C10_VictoryRepeats ==
    (pc = "game" /\ (wonBefore \/ Announced(out))) =>
        \A l \in MoveLines \cup TakeLines : \E r \in {handle_command(Game, l)} :
            /\ (/\ l \in MoveLines
                /\ r.st.location = "Pirate Cove"
                /\ HoldsAllSix(r.st.inventory)) => Announced(r.st.out)
            /\ ~HoldsAllSix(r.st.inventory) => ~Announced(r.st.out)

\* C10 witness: victory had been announced, the player left and came back with
\* all six, and victory was announced again.
C10_Witness ==
    /\ pc = "game" /\ wonBefore
    /\ out = <<MsgLocation, MsgVictory>> /\ location = "Pirate Cove"

\* C11: a take line whose argument is contained in an item name of the current
\* island takes the first such item in the island's list order: it leaves the
\* island's list, the other items keeping their places, and is appended to the
\* inventory; the other islands' lists, the rest of the inventory and the
\* player's location stay as they are.
C11_TakeMovesFirstMatch ==
    pc = "game" =>
        \A l \in TakeLines :
            (\E k \in 1..Len(items[location]) : items[location][k] \in LineMatches[l]) =>
                \E r \in {handle_command(Game, l)} :
                \E k \in {FirstIn(items[location], LineMatches[l])} :
                    /\ r.continue
                    /\ r.st.location = location
                    /\ r.st.inventory = Append(inventory, items[location][k])
                    /\ r.st.items = [items EXCEPT ![location] = WithoutAt(@, k)]
                    /\ r.st.out[1] = MsgYouTake /\ r.st.out[2] = items[location][k]

\* C11 witness: the island held two items and the first of them was taken.
C11_Witness ==
    /\ pc = "game" /\ location = "Blackwater Cay"
    /\ out = <<MsgYouTake, "compass">>
    /\ items["Blackwater Cay"] = <<"spyglass">>

\* C12: a drop line whose argument is contained in a carried item name drops the
\* first such item in inventory order: it leaves the inventory, the others keeping
\* their order, and is appended to the current island's list; the other islands'
\* lists and the player's location stay as they are and no victory is announced.
C12_DropMovesFirstMatch ==
    pc = "game" =>
        \A l \in DropLines :
            (\E k \in 1..Len(inventory) : inventory[k] \in LineMatches[l]) =>
                \E r \in {handle_command(Game, l)} :
                \E k \in {FirstIn(inventory, LineMatches[l])} :
                    /\ r.continue
                    /\ r.st.location = location
                    /\ r.st.inventory = WithoutAt(inventory, k)
                    /\ r.st.items = [items EXCEPT ![location] = Append(@, inventory[k])]
                    /\ r.st.out = <<MsgYouDrop, inventory[k]>>

\* C12 witness: two items were carried and the first was dropped on an island
\* that is not the one it came from and that holds an item of its own.
C12_Witness ==
    /\ pc = "game" /\ location = "Blackwater Cay"
    /\ out = <<MsgYouDrop, "note">>
    /\ items["Blackwater Cay"] = <<"compass", "note">>
    /\ inventory = <<"spyglass">>

\* C13: in every state of a session and for every direction, all spellings of the
\* move (go or move with the direction, the direction alone, the one-letter
\* abbreviation, any letter case) leave the same location, inventory and item
\* lists, are accepted or rejected alike and announce victory alike; an accepted
\* move leaves the player on the island the exit of that direction leads to, with
\* the inventory and all item lists as they were.
C13_MoveSpellingsAgree ==
    [](pc = "game" =>
        \A d \in DOMAIN MoveSpellings :
            \E r \in {handle_command(Game, "go " \o d)} :
                /\ r.continue
                /\ r.st.inventory = inventory /\ r.st.items = items
                /\ IF d \in DOMAIN WORLD_exits[location]
                   THEN r.st.location = WORLD_exits[location][d] /\ r.st.out[1] = MsgLocation
                   ELSE r.st.location = location /\ r.st.out[1] = MsgNoPassage
                /\ \A l \in MoveSpellings[d] :
                       \E q \in {handle_command(Game, l)} :
                           /\ q.continue = r.continue
                           /\ q.st.location = r.st.location
                           /\ q.st.inventory = r.st.inventory
                           /\ q.st.items = r.st.items
                           /\ q.st.out[1] = r.st.out[1]
                           /\ Announced(q.st.out) = Announced(r.st.out))

\* C13 witness: a move was accepted, brought the player to Pirate Cove with the
\* six treasures and the note left behind, and victory was announced.
C13_Witness ==
    /\ pc = "game" /\ location = "Pirate Cove"
    /\ out = <<MsgLocation, MsgVictory>>
    /\ Len(inventory) = 6 /\ items["Pirate Cove"] = <<"note">>

\* what the inventory command is to print for the carried list inv
InventoryReport(inv, o) ==
    IF inv = <<>> THEN o = <<MsgBagEmpty>>
    ELSE /\ Len(o) > Len(inv) + 1
         /\ o[1] = MsgYouCarry
         /\ SubSeq(o, 2, Len(inv) + 1) = inv
         /\ LET rest == SubSeq(o, Len(inv) + 2, Len(o))
                missing == TREASURE_ITEMS \ {inv[k] : k \in 1..Len(inv)}
            IN  IF missing = {}
                THEN rest = <<MsgFullTrove>>
                ELSE /\ rest[1] = MsgMissing
                     /\ Len(rest) = 1 + Cardinality(missing)
                     /\ {rest[k] : k \in 2..Len(rest)} = missing

\* C14: the inventory command says the bag is empty exactly when it is; otherwise
\* it lists the carried items in inventory order and then either the missing
\* treasures, which are the treasure set minus the carried items, or, exactly when
\* none is missing, that the trove is complete.  What it prints is the same on
\* every island and is never the victory announcement.  After go east, take
\* spyglass, go west, inventory from a fresh start the player is at Pirate Cove
\* carrying the spyglass alone and the missing list is the other five treasures.
C14_InventoryReport ==
    /\ pc = "game" =>
          \A l \in {"inventory", "i"} : \A n \in ISLANDS :
              \E r \in {handle_command([Game EXCEPT !.location = n], l)} :
                  /\ InventoryReport(inventory, r.st.out)
                  /\ (r.st.out = <<MsgBagEmpty>>) <=> (inventory = <<>>)
                  /\ (r.st.out[Len(r.st.out)] = MsgFullTrove) <=> HoldsAllSix(inventory)
                  /\ ~Announced(r.st.out)
                  /\ r.continue /\ r.st.location = n
    /\ \E st \in {play(FreshGame, SpyglassTrip)} :
          /\ st.location = "Pirate Cove"
          /\ st.inventory = <<"spyglass">>
          /\ st.items["Skull Key"] = <<>>
          /\ Len(st.out) = 8 /\ st.out[1] = MsgYouCarry /\ st.out[2] = "spyglass"
          /\ st.out[3] = MsgMissing
          /\ {st.out[k] : k \in 4..8} = TREASURE_ITEMS \ {"spyglass"}

\* C14 witness: the inventory command was given with all seven items carried and
\* reported the full trove.
C14_Witness ==
    /\ pc = "game" /\ Len(inventory) = 7
    /\ Len(out) = 9 /\ out[1] = MsgYouCarry /\ out[9] = MsgFullTrove

\* the lines that are neither move, take, drop nor quit lines
OtherLines == {"", " \t ", "look", "l", "inventory", "i", "help", "?", "dance"}

\* C15: an empty or blank line, look, inventory, help and an unknown verb leave
\* the location, the inventory and every item list as they are and the session
\* goes on; the empty and the blank line print nothing.
C15_OtherCommandsChangeNothing ==
    pc = "game" =>
        \A l \in OtherLines :
            \E r \in {handle_command(Game, l)} :
                /\ NothingChanged(r)
                /\ l \in {"", " \t "} => r.st.out = <<>>
                /\ l \notin {"", " \t "} => r.st.out # <<>>

\* C15 witness: an empty line was read away from home with something carried.
C15_Witness ==
    /\ pc = "game" /\ out = <<>>
    /\ location # START_ISLAND /\ inventory # <<>> /\ ncmd >= 3

\* C16: while a session runs the player's location is an island of the world, and
\* so it stays after every line; the islands the item lists are kept for are
\* always the same seven, and every exit of every island is one of the four
\* directions and leads to an island of the world.
C16_LocationAndExitsValid ==
    /\ DOMAIN WORLD_exits = ISLANDS
    /\ \A n \in ISLANDS : \A d \in DOMAIN WORLD_exits[n] :
           /\ d \in {"north", "south", "east", "west"}
           /\ WORLD_exits[n][d] \in ISLANDS
    /\ DOMAIN items = ISLANDS
    /\ pc = "game" =>
           /\ location \in ISLANDS
           /\ \A l \in MoveLines :
                  \E r \in {handle_command(Game, l)} :
                      r.st.location \in ISLANDS /\ DOMAIN r.st.items = ISLANDS

\* C16 witness: three moves have brought the player to the farthest island.
C16_Witness ==
    /\ pc = "game" /\ location = "Doubloon Point" /\ out = <<MsgLocation>>

\* the islands a player standing on one of the islands of S comes to by one
\* accepted move, together with those of S
OneMoveFrom(S) ==
    S \cup {handle_command([FreshGame EXCEPT !.location = n], "go " \o d).st.location :
                n \in S, d \in {"north", "south", "east", "west"}}

RECURSIVE MovesFrom(_, _)
MovesFrom(S, k) == IF k = 0 THEN S ELSE MovesFrom(OneMoveFrom(S), k - 1)

\* the islands that accepted moves lead to from Pirate Cove
ReachableIslands == MovesFrom({START_ISLAND}, Cardinality(ISLANDS) - 1)

\* C17: every one of the seven islands is reached from Pirate Cove by a finite
\* sequence of accepted moves, and a player is never anywhere else.
C17_WorldConnected ==
    /\ ReachableIslands = ISLANDS
    /\ pc = "game" => location \in ReachableIslands

\* C17 witness: moves alone have brought the player from Pirate Cove to the
\* island farthest from it.
C17_Witness ==
    /\ pc = "game" /\ session = 1 /\ location = "Doubloon Point"
    /\ inventory = <<>> /\ items = WORLD_items /\ ncmd = 3

\* the islands from which at most k moves lead to the island to
RECURSIVE Within(_, _)
Within(to, k) ==
    IF k = 0 THEN {to}
    ELSE LET W == Within(to, k - 1)
         IN  W \cup {n \in ISLANDS : \E d \in DOMAIN WORLD_exits[n] : WORLD_exits[n][d] \in W}

\* the least number of moves from one island to another
Dist(from, to) ==
    CHOOSE k \in 0..Cardinality(ISLANDS) :
        from \in Within(to, k) /\ (k = 0 \/ from \notin Within(to, k - 1))

\* a direction that brings the player one move nearer to the island to
NextDirection ==
    [to \in ISLANDS |-> [from \in ISLANDS \ {to} |->
        CHOOSE d \in DOMAIN WORLD_exits[from] : Dist(WORLD_exits[from][d], to) < Dist(from, to)]]

\* the move lines of a shortest way from one island to another
RECURSIVE Route(_, _)
Route(from, to) ==
    IF from = to THEN <<>>
    ELSE <<"go " \o NextDirection[to][from]>>
             \o Route(WORLD_exits[from][NextDirection[to][from]], to)

\* the line that takes a treasure by its full name
TakeLine ==
    "compass" :> "pick compass" @@ "cutlass" :> "take cutlass" @@
    "doubloon" :> "take doubloon" @@ "map piece" :> "take map piece" @@
    "rum" :> "take rum" @@ "spyglass" :> "take spyglass"

\* the item lies on some island
Lying(its, t) == \E n \in ISLANDS : \E k \in 1..Len(its[n]) : its[n][k] = t

Holder(its, t) == CHOOSE n \in ISLANDS : \E k \in 1..Len(its[n]) : its[n][k] = t

\* the lines that fetch the treasures ts one after the other from the islands
\* they lie on, bring them to Pirate Cove and there ask for one more move
RECURSIVE Gather(_, _, _)
Gather(its, from, ts) ==
    IF ts = <<>> THEN Route(from, START_ISLAND) \o <<"go north">>
    ELSE Route(from, Holder(its, Head(ts))) \o <<TakeLine[Head(ts)]>>
             \o Gather(its, Holder(its, Head(ts)), Tail(ts))

WinningLines ==
    Gather(items, location,
           SelectSeq(SortedTreasure, LAMBDA t : \A k \in 1..Len(inventory) : inventory[k] # t))

\* C18: in a first session the game is never lost: whatever has been taken,
\* carried about and dropped, every treasure is either carried or lies on some
\* island, and fetching the missing ones by name and walking to Pirate Cove is a
\* finite continuation that ends with all six carried at Pirate Cove and victory
\* announced.
C18_NeverUnwinnable ==
    (pc = "game" /\ session = 1) =>
        /\ \A t \in TREASURE_ITEMS :
               (\E k \in 1..Len(inventory) : inventory[k] = t) \/ Lying(items, t)
        /\ \E st \in {play(Game, WinningLines)} :
               /\ Announced(st.out)
               /\ st.location = "Pirate Cove"
               /\ HoldsAllSix(st.inventory)

\* C18 witness: a treasure has been carried off its island and dropped on an
\* island two moves away, where the player now stands with an empty bag.
C18_Witness ==
    /\ pc = "game" /\ session = 1 /\ location = "Mermaid Shoals"
    /\ items["Mermaid Shoals"] = <<"map piece", "spyglass">>
    /\ inventory = <<>> /\ out = <<MsgYouDrop, "spyglass">>

Opposite == "north" :> "south" @@ "south" :> "north" @@ "east" :> "west" @@ "west" :> "east"

\* C19: every exit has its way back: the island an exit leads to has an exit in
\* the opposite direction that leads to the island the first one left, and in
\* every state of a session a move through an exit followed by the move in the
\* opposite direction is accepted both times and leaves the player where they
\* were, the inventory and all item lists as they were.
C19_ExitsSymmetric ==
    /\ \A n \in ISLANDS : \A d \in DOMAIN WORLD_exits[n] :
           /\ Opposite[d] \in DOMAIN WORLD_exits[WORLD_exits[n][d]]
           /\ WORLD_exits[WORLD_exits[n][d]][Opposite[d]] = n
    /\ pc = "game" =>
           \A d \in DOMAIN WORLD_exits[location] :
               \E there \in {handle_command(Game, "go " \o d)} :
               \E back \in {handle_command([there.st EXCEPT !.out = <<>>], "go " \o Opposite[d])} :
                   /\ there.continue /\ there.st.out[1] = MsgLocation
                   /\ there.st.location # location
                   /\ back.continue /\ back.st.out[1] = MsgLocation
                   /\ back.st.location = location
                   /\ back.st.inventory = inventory
                   /\ back.st.items = items

\* C19 witness: the player went to Skull Key, took the spyglass, went back to
\* Pirate Cove and has come to Skull Key again.
C19_Witness ==
    /\ pc = "game" /\ session = 1 /\ ncmd = 4
    /\ location = "Skull Key" /\ out = <<MsgLocation>>
    /\ inventory = <<"spyglass">> /\ items["Skull Key"] = <<>>

\* the lines that take and that drop an item by its full name
FullTake ==
    "note" :> "take note" @@ "spyglass" :> "get spyglass" @@ "compass" :> "pick compass" @@
    "rum" :> "take rum" @@ "map piece" :> "take map piece" @@ "cutlass" :> "take cutlass" @@
    "doubloon" :> "take doubloon"

FullDrop ==
    "note" :> "drop note" @@ "spyglass" :> "drop spyglass" @@ "compass" :> "drop compass" @@
    "rum" :> "drop rum" @@ "map piece" :> "drop map  piece" @@ "cutlass" :> "drop cutlass" @@
    "doubloon" :> "drop doubloon"

\* no item name is contained in the name of another item
NoNameInsideAnother ==
    \A i \in ITEMS : \A j \in ITEMS \ {i} : ~contains(LowerName[j], LowerName[i])

\* C20: no item name is contained in another, and in every state of a session a
\* take of an item by its full name that succeeds, followed at once by the drop
\* of that name, drops the item just taken and leaves the inventory and the
\* player's location as they were before the take, the other islands' lists
\* untouched, and the current island with the same items as before, the item
\* now last in its list.
C20_TakeThenDrop ==
    /\ NoNameInsideAnother
    /\ pc = "game" =>
           \A i \in ITEMS :
               \E t \in {handle_command(Game, FullTake[i])} :
                   (t.st.out # <<>> /\ t.st.out[1] = MsgYouTake) =>
                       \E b \in {handle_command([t.st EXCEPT !.out = <<>>], FullDrop[i])} :
                           /\ t.st.out[2] = i
                           /\ t.st.inventory = Append(inventory, i)
                           /\ b.continue
                           /\ b.st.out = <<MsgYouDrop, i>>
                           /\ b.st.inventory = inventory
                           /\ b.st.location = location
                           /\ \A n \in ISLANDS \ {location} : b.st.items[n] = items[n]
                           /\ Len(b.st.items[location]) = Len(items[location])
                           /\ {b.st.items[location][k] : k \in 1..Len(items[location])}
                                  = {items[location][k] : k \in 1..Len(items[location])}
                           /\ b.st.items[location][Len(items[location])] = i

\* C20 witness: with the note already carried the spyglass was taken at Skull Key
\* and dropped there again.
C20_Witness ==
    /\ pc = "game" /\ session = 1 /\ ncmd = 4
    /\ location = "Skull Key" /\ out = <<MsgYouDrop, "spyglass">>
    /\ inventory = <<"note">> /\ items["Skull Key"] = <<"spyglass">>

=============================================================================
